---- MODULE Spec2Model ----
(***************************************************************************)
(* Address Book API: coordinate parsing, great-circle distance, the        *)
(* proximity query (app/ and the top-level legacy variant) and the CRUD    *)
(* handlers over the address table.                                        *)
(*                                                                         *)
(* Text is a sequence of one-character strings.  The degree sign U+00B0    *)
(* is written "deg".  A float is a record [cls, v]: cls = "fin" with v the *)
(* value in units of 1/CoordScale degree (coordinates) or of 1/TrigScale   *)
(* (angles, ratios) or metres (distances); cls = "inf" with v the sign;    *)
(* cls = "nan".                                                            *)
(***************************************************************************)
EXTENDS Integers, Sequences, FiniteSets, TLC

\* ------------------------------------------------------------------ bounds

MaxLen == 3        \* longest text enumerated over the whole Alphabet
MaxRecords == 2    \* rows the address table may hold
MaxId == 3         \* largest primary key the table hands out

\* ------------------------------------------------------------- python values

None == [cls |-> "none", v |-> 0]

Fin(n) == [cls |-> "fin", v |-> n]

Inf(sgn) == [cls |-> "inf", v |-> sgn]

NaN == [cls |-> "nan", v |-> 0]

IsFinite(x) == x.cls = "fin"

\* IEEE unary minus
Neg(x) ==
    CASE x.cls = "fin" -> Fin(-x.v)
      [] x.cls = "inf" -> Inf(-x.v)
      [] OTHER -> x

\* IEEE a <= b (false when either side is nan)
Leq(a, b) ==
    CASE a.cls = "nan" \/ b.cls = "nan" -> FALSE
      [] a.cls = "fin" /\ b.cls = "fin" -> a.v <= b.v
      [] a.cls = "inf" /\ b.cls = "inf" -> a.v <= b.v
      [] a.cls = "inf" -> a.v < 0
      [] OTHER -> b.v > 0

\* IEEE a < b
Lt(a, b) == Leq(a, b) /\ a # b

\* a returned value / a raised exception
Ok(x) == [ok |-> TRUE, val |-> x, exc |-> "", msg |-> <<>>]

Raise(kind, text) == [ok |-> FALSE, val |-> None, exc |-> kind, msg |-> text]

\* ------------------------------------------------------------------ text

Digits == {"0", "1", "2", "3", "4", "5", "6", "7", "8", "9"}

Space == {" "}

Signs == {"-", "+"}

DirLetters == {"N", "S", "E", "W", "n", "s", "e", "w"}

DigitVal(c) ==
    CASE c = "0" -> 0 [] c = "1" -> 1 [] c = "2" -> 2 [] c = "3" -> 3
      [] c = "4" -> 4 [] c = "5" -> 5 [] c = "6" -> 6 [] c = "7" -> 7
      [] c = "8" -> 8 [] c = "9" -> 9

\* str.upper() / str.lower() on one character
Upper(c) ==
    CASE c = "n" -> "N" [] c = "s" -> "S" [] c = "e" -> "E" [] c = "w" -> "W"
      [] c = "i" -> "I" [] c = "f" -> "F" [] c = "a" -> "A" [] c = "x" -> "X"
      [] OTHER -> c

Lower(c) ==
    CASE c = "N" -> "n" [] c = "S" -> "s" [] c = "E" -> "e" [] c = "W" -> "w"
      [] c = "I" -> "i" [] c = "F" -> "f" [] c = "A" -> "a" [] c = "X" -> "x"
      [] OTHER -> c

LowerStr(s) == [i \in 1..Len(s) |-> Lower(s[i])]

\* str.strip(): drop leading and trailing whitespace
RECURSIVE LStrip(_)
LStrip(s) == IF s # <<>> /\ Head(s) \in Space THEN LStrip(Tail(s)) ELSE s

RECURSIVE RStrip(_)
RStrip(s) ==
    IF s # <<>> /\ s[Len(s)] \in Space THEN RStrip(SubSeq(s, 1, Len(s) - 1)) ELSE s

Strip(s) == RStrip(LStrip(s))

\* index after the longest run of characters of class C starting at i
RECURSIVE SkipClass(_, _, _)
SkipClass(s, i, C) ==
    IF i <= Len(s) /\ s[i] \in C THEN SkipClass(s, i + 1, C) ELSE i

At(s, i) == IF i >= 1 /\ i <= Len(s) THEN s[i] ELSE ""

\* re.match(r"([-+]?\d*\.?\d+)\s*deg?\s*([NSEW])?", s, re.IGNORECASE):
\* anchored at the start only, greedy with backtracking.  g1end is the index
\* of the last character of group 1, group2 is <<>> when the group is None.
re_match(s) ==
    LET i1 == IF At(s, 1) \in Signs THEN 2 ELSE 1
        i2 == SkipClass(s, i1, Digits)
        dotFrac == At(s, i2) = "." /\ At(s, i2 + 1) \in Digits
        g1end == IF dotFrac THEN SkipClass(s, i2 + 1, Digits) - 1 ELSE i2 - 1
        hit == dotFrac \/ i2 > i1
        j1 == SkipClass(s, g1end + 1, Space)
        j2 == IF At(s, j1) = "deg" THEN j1 + 1 ELSE j1
        j3 == SkipClass(s, j2, Space)
    IN  IF hit
        THEN [matched |-> TRUE,
              group1 |-> SubSeq(s, 1, g1end),
              group2 |-> IF At(s, j3) \in DirLetters THEN <<At(s, j3)>> ELSE <<>>]
        ELSE [matched |-> FALSE, group1 |-> <<>>, group2 |-> <<>>]

\* ------------------------------------------------------------------ float()

CoordScale == 10   \* a coordinate is held in tenths of a degree

RECURSIVE DigitsVal(_)
DigitsVal(ds) ==
    IF ds = <<>> THEN 0 ELSE DigitsVal(SubSeq(ds, 1, Len(ds) - 1)) * 10 + DigitVal(ds[Len(ds)])

\* float() of a decimal literal sign? digits* ('.' digits+)?, to the
\* representable precision (fraction digits beyond it are dropped)
FloatOfDecimal(g) ==
    LET neg == At(g, 1) = "-"
        i1 == IF At(g, 1) \in Signs THEN 2 ELSE 1
        i2 == SkipClass(g, i1, Digits)
        int == DigitsVal(SubSeq(g, i1, i2 - 1))
        frac == IF At(g, i2) = "." /\ At(g, i2 + 1) \in Digits
                THEN DigitVal(g[i2 + 1]) ELSE 0
        mag == int * CoordScale + frac
    IN  Fin(IF neg THEN -mag ELSE mag)

\* float(text) on text the pattern did not match: the only texts Python
\* accepts that do not start with a decimal literal are the special values
FloatOfStr(s) ==
    LET neg == At(s, 1) = "-"
        body == LowerStr(IF At(s, 1) \in Signs THEN Tail(s) ELSE s)
    IN  CASE body \in {<<"i", "n", "f">>, <<"i", "n", "f", "i", "n", "i", "t", "y">>} ->
                Ok(Inf(IF neg THEN -1 ELSE 1))
          [] body = <<"n", "a", "n">> -> Ok(NaN)
          [] OTHER -> Raise("ValueError", <<"could not convert string to float: ">> \o s)

\* ---------------------------------------------------------- parse_coordinate

\* a coordinate argument: a number (int or float) or a text
Num(x) == [tag |-> "float", num |-> x, int |-> 0, str |-> <<>>]

IntNum(n) == [tag |-> "int", num |-> None, int |-> n, str |-> <<>>]

Str(s) == [tag |-> "str", num |-> None, int |-> 0, str |-> s]

\* float(coord) behind a range check the code does not make
numeric_value_range_checked(coord) ==
    IF coord.tag = "float" /\ coord.num.cls = "fin"
          /\ (coord.num.v < -180 * CoordScale \/ coord.num.v > 180 * CoordScale)
    THEN Raise("ValueError", <<"out of range">>)
    ELSE IF coord.tag = "int" THEN Ok(Fin(coord.int * CoordScale)) ELSE Ok(coord.num)

\* lines 24-26: float(coord) of an int (whole degrees) or a float
numeric_value(coord) ==
    IF coord.tag = "int" THEN Ok(Fin(coord.int * CoordScale)) ELSE Ok(coord.num)

\* the direction letter compared without .upper()
signed_value_case_sensitive(value, direction) ==
    IF direction # <<>> /\ direction[1] \in {"S", "W"}
    THEN Ok(Neg(value))
    ELSE Ok(value)

\* S and W as "make negative" rather than "negate"
signed_value_made_negative(value, direction) ==
    IF direction # <<>> /\ Upper(direction[1]) \in {"S", "W"}
    THEN Ok(IF Lt(Fin(0), value) THEN Neg(value) ELSE value)
    ELSE Ok(value)

\* lines 34-42: the value of group 1, negated for directions S and W
signed_value(value, direction) ==
    IF direction # <<>> /\ Upper(direction[1]) \in {"S", "W"}
    THEN Ok(Neg(value))
    ELSE Ok(value)

\* the ValueError rewrapped without the input
float_or_invalid_bare(coord, fallback) ==
    IF fallback.ok
    THEN fallback
    ELSE Raise("ValueError", <<"Invalid coordinate format">>)

\* lines 48-52: float(coord_str), its ValueError rewrapped with the input
float_or_invalid(coord, fallback) ==
    IF fallback.ok
    THEN fallback
    ELSE Raise("ValueError", <<"Invalid coordinate format: ">> \o coord)

\* lines 32-52: the branch on the match
parse_match(coord, coord_str, match) ==
    IF match.matched
    THEN signed_value(FloatOfDecimal(match.group1), match.group2)
    ELSE float_or_invalid(coord, FloatOfStr(coord_str))

parse_coordinate(coord) ==
    IF coord.tag \in {"int", "float"}
    THEN numeric_value(coord)
    ELSE parse_match(coord.str, Strip(coord.str), re_match(Strip(coord.str)))

\* ------------------------------------------------- float arithmetic (math)

TrigScale == 100000000   \* an angle or a ratio is held in units of 1e-8

TrigRoot == 10000        \* TrigScale = TrigRoot * TrigRoot

Pi == 314159265

HalfPi == 157079632

QuarterPi == 78539816

TanEighthPi == 41421356

Abs(x) == IF x < 0 THEN -x ELSE x

\* x * y, rounded toward zero (the rounding is symmetric in the sign, as in IEEE)
MulFP[x \in Int, y \in Int] ==
    LET ax == Abs(x)
        ay == Abs(y)
        xh == ax \div TrigRoot
        xl == ax % TrigRoot
        yh == ay \div TrigRoot
        yl == ay % TrigRoot
        m == xh * yh + (xh * yl + xl * yh + (xl * yl) \div TrigRoot) \div TrigRoot
    IN  IF (x < 0) # (y < 0) THEN -m ELSE m

\* x / y for 0 <= x, 0 < y, by long division to eight places
LongDiv[r \in Int, y \in Int, n \in Int, acc \in Int] ==
    IF n = 0 THEN acc ELSE LongDiv[(r * 10) % y, y, n - 1, acc * 10 + (r * 10) \div y]

DivFP[x \in Int, y \in Int] == LongDiv[x % y, y, 8, x \div y]

\* x / 2
HalfFP[x \in Int] == IF x < 0 THEN -(Abs(x) \div 2) ELSE x \div 2

\* sum of the alternating series term - term*x2/((n+1)(n+2)) + ...
Series[term \in Int, x2 \in Int, n \in Int, sgn \in Int, acc \in Int] ==
    IF term = 0
    THEN acc
    ELSE Series[MulFP[term, x2] \div ((n + 1) * (n + 2)), x2, n + 2, -sgn, acc + sgn * term]

Clamp[x \in Int] ==
    IF x > TrigScale THEN TrigScale ELSE IF x < -TrigScale THEN -TrigScale ELSE x

\* the angle of the first quadrant with the same sine as x, |x| <= pi
Fold[x \in Int] == IF Abs(x) > HalfPi THEN Abs(Pi - Abs(x)) ELSE Abs(x)

\* math.sin(x), |x| <= pi
sin[x \in Int] ==
    LET s == Clamp[Series[Fold[x], MulFP[Fold[x], Fold[x]], 1, 1, 0]]
    IN  IF x < 0 THEN -s ELSE s

\* math.cos(x), |x| <= pi
cos[x \in Int] ==
    LET c == Clamp[Series[TrigScale, MulFP[Fold[x], Fold[x]], 0, 1, 0]]
    IN  IF Abs(x) > HalfPi THEN -c ELSE c

\* r * r <= a, exactly (no rounding of the square)
SqLeq[r \in Int, a \in Int] ==
    LET rh == r \div TrigRoot
        rl == r % TrigRoot
        d == a - rh * rh
    IN  /\ d >= 0
        /\ \/ d > 3 * TrigRoot
           \/ d * TrigRoot >= 2 * rh * rl + (rl * rl + TrigRoot - 1) \div TrigRoot

\* largest r in lo..hi with r*r <= a
SqrtSearch[a \in Int, lo \in Int, hi \in Int] ==
    IF lo >= hi
    THEN lo
    ELSE IF SqLeq[(lo + hi + 1) \div 2, a]
         THEN SqrtSearch[a, (lo + hi + 1) \div 2, hi]
         ELSE SqrtSearch[a, lo, (lo + hi + 1) \div 2 - 1]

\* math.sqrt(a): a negative argument is a "math domain error"
sqrt[a \in Int] ==
    IF a < 0
    THEN Raise("ValueError", <<"math domain error">>)
    ELSE Ok(SqrtSearch[a, 0, 4 * TrigScale])

\* atan(z) for |z| <= tan(pi/8), by its series z - z^3/3 + z^5/5 - ...
AtanSeries[pow \in Int, z2 \in Int, n \in Int, sgn \in Int, acc \in Int] ==
    IF pow = 0
    THEN acc
    ELSE AtanSeries[MulFP[pow, z2], z2, n + 2, -sgn, acc + sgn * (pow \div n)]

AtanSmall[z \in Int] == AtanSeries[z, MulFP[z, z], 1, 1, 0]

\* atan(z) for 0 <= z <= 1
AtanUnit[z \in Int] ==
    IF z <= TanEighthPi
    THEN AtanSmall[z]
    ELSE QuarterPi - AtanSmall[DivFP[TrigScale - z, TrigScale + z]]

\* math.atan2(y, x) for y >= 0, x >= 0
atan2[y \in Int, x \in Int] ==
    CASE y = 0 -> 0
      [] x = 0 -> HalfPi
      [] y <= x -> AtanUnit[DivFP[y, x]]
      [] OTHER -> HalfPi - AtanUnit[DivFP[x, y]]

\* math.radians(d) for d in tenths of a degree: d * (pi / 1800)
radians[d \in Int] ==
    LET r == Abs(d) * 174532 + (Abs(d) * 9252) \div 10000
    IN  IF d < 0 THEN -r ELSE r

\* ------------------------------------------------------------------ haversine

R == 6371   \* Earth radius in KM

\* R * c, in metres
TimesR[c \in Int] == (c \div 100000) * R + ((c % 100000) * R) \div 100000

\* a = sin(d_lat / 2)**2 + cos(lat1) * cos(lat2) * sin(d_lon / 2)**2
HavA[lat1 \in Int, lat2 \in Int, sin_lat \in Int, sin_lon \in Int] ==
    MulFP[sin_lat, sin_lat]
        + MulFP[MulFP[cos[radians[lat1]], cos[radians[lat2]]], MulFP[sin_lon, sin_lon]]

\* c = 2 * atan2(sqrt(a), sqrt(1 - a)); distance = R * c
HavC[a \in Int] ==
    CASE ~sqrt[a].ok -> sqrt[a]
      [] ~sqrt[TrigScale - a].ok -> sqrt[TrigScale - a]
      [] OTHER -> Ok(Fin(TimesR[2 * atan2[sqrt[a].val, sqrt[TrigScale - a].val]]))

\* the longitudes added where the code subtracts them
great_circle_sum(lat1_parsed, lon1_parsed, lat2_parsed, lon2_parsed) ==
    HavC[HavA[lat1_parsed, lat2_parsed,
              sin[HalfFP[radians[lat2_parsed - lat1_parsed]]],
              sin[HalfFP[radians[lon2_parsed + lon1_parsed]]]]]

\* cos(lat1) squared where the code multiplies cos(lat1) by cos(lat2)
great_circle_one_sided(lat1_parsed, lon1_parsed, lat2_parsed, lon2_parsed) ==
    HavC[HavA[lat1_parsed, lat1_parsed,
              sin[HalfFP[radians[lat2_parsed - lat1_parsed]]],
              sin[HalfFP[radians[lon2_parsed - lon1_parsed]]]]]

\* lines 83-96: the distance in metres of two parsed points given in tenths
\* of a degree
great_circle(lat1_parsed, lon1_parsed, lat2_parsed, lon2_parsed) ==
    HavC[HavA[lat1_parsed, lat2_parsed,
              sin[HalfFP[radians[lat2_parsed - lat1_parsed]]],
              sin[HalfFP[radians[lon2_parsed - lon1_parsed]]]]]

\* the latitude range without its end points
LatOk_open(x) == Lt(Fin(-90 * CoordScale), x) /\ Lt(x, Fin(90 * CoordScale))

LatOk(x) == Leq(Fin(-90 * CoordScale), x) /\ Leq(x, Fin(90 * CoordScale))

LonOk(x) == Leq(Fin(-180 * CoordScale), x) /\ Leq(x, Fin(180 * CoordScale))

\* range checks made on whatever parsed, before a parse failure is reported
haversine_parsed_range_first(lat1_parsed, lon1_parsed, lat2_parsed, lon2_parsed) ==
    CASE (lat1_parsed.ok /\ ~LatOk(lat1_parsed.val))
            \/ (lat2_parsed.ok /\ ~LatOk(lat2_parsed.val)) ->
            Raise("ValueError", <<"Latitude must be between -90 and 90 degrees">>)
      [] (lon1_parsed.ok /\ ~LonOk(lon1_parsed.val))
            \/ (lon2_parsed.ok /\ ~LonOk(lon2_parsed.val)) ->
            Raise("ValueError", <<"Longitude must be between -180 and 180 degrees">>)
      [] ~lat1_parsed.ok -> lat1_parsed
      [] ~lon1_parsed.ok -> lon1_parsed
      [] ~lat2_parsed.ok -> lat2_parsed
      [] ~lon2_parsed.ok -> lon2_parsed
      [] OTHER -> great_circle(lat1_parsed.val.v, lon1_parsed.val.v,
                               lat2_parsed.val.v, lon2_parsed.val.v)

haversine_parsed(lat1_parsed, lon1_parsed, lat2_parsed, lon2_parsed) ==
    CASE ~lat1_parsed.ok -> lat1_parsed
      [] ~lon1_parsed.ok -> lon1_parsed
      [] ~lat2_parsed.ok -> lat2_parsed
      [] ~lon2_parsed.ok -> lon2_parsed
      [] ~LatOk(lat1_parsed.val) \/ ~LatOk(lat2_parsed.val) ->
            Raise("ValueError", <<"Latitude must be between -90 and 90 degrees">>)
      [] ~LonOk(lon1_parsed.val) \/ ~LonOk(lon2_parsed.val) ->
            Raise("ValueError", <<"Longitude must be between -180 and 180 degrees">>)
      [] OTHER -> great_circle(lat1_parsed.val.v, lon1_parsed.val.v,
                               lat2_parsed.val.v, lon2_parsed.val.v)

haversine(lat1, lon1, lat2, lon2) ==
    haversine_parsed(parse_coordinate(lat1), parse_coordinate(lon1),
                     parse_coordinate(lat2), parse_coordinate(lon2))

\* ----------------------------------------------- top-level utils.py (legacy)

\* utils.parse_coordinate: the same pattern; the fallback float() error is
\* not rewrapped
legacy_parse_match(coord_str, match) ==
    IF match.matched
    THEN signed_value(FloatOfDecimal(match.group1), match.group2)
    ELSE FloatOfStr(coord_str)

legacy_parse_coordinate(coord) ==
    IF coord.tag \in {"int", "float"}
    THEN numeric_value(coord)
    ELSE legacy_parse_match(Strip(coord.str), re_match(Strip(coord.str)))

\* utils.haversine: no range validation.  math.sin / math.cos of an infinity
\* is a "math domain error"; a nan runs through to a nan distance.
legacy_haversine_parsed(p1, p2, p3, p4) ==
    CASE ~p1.ok -> p1
      [] ~p2.ok -> p2
      [] ~p3.ok -> p3
      [] ~p4.ok -> p4
      [] \A x \in {p1.val, p2.val, p3.val, p4.val} : x.cls = "fin" ->
            great_circle(p1.val.v, p2.val.v, p3.val.v, p4.val.v)
      [] \E x \in {p1.val, p3.val} : x.cls = "inf" ->
            Raise("ValueError", <<"math domain error">>)
      [] p1.val.cls = "fin" /\ p3.val.cls = "fin"
           /\ "inf" \in {p2.val.cls, p4.val.cls} /\ p2.val # p4.val ->
            Raise("ValueError", <<"math domain error">>)
      [] OTHER -> Ok(NaN)

legacy_haversine(lat1, lon1, lat2, lon2) ==
    legacy_haversine_parsed(legacy_parse_coordinate(lat1), legacy_parse_coordinate(lon1),
                            legacy_parse_coordinate(lat2), legacy_parse_coordinate(lon2))

\* --------------------------------------------------------------- the inputs

T0 == <<"0">>

T1N == <<"1", " ", "N">>

T1S == <<"1", "deg", "S">>

TX == <<"x">>

T91 == <<"9", "1">>

T181 == <<"1", "8", "1">>

\* texts a client stores as latitude / longitude (any text is accepted)
LatTexts == {T0, T1N, T1S, TX}

LonTexts == {T0, T181}

Names == {"a", "b"}

\* the center of a query
CenterLats == {T0, T91, TX}

CenterLons == {T0, T181, TX}

\* ------------------------------------------------------------ address table

\* a row that holds the two coordinate texts the wrong way round
Address_swapped(id, name, latitude, longitude) ==
    [id |-> id, name |-> name, latitude |-> longitude, longitude |-> latitude,
     null |-> {}]

\* a row of table "addresses": id, name, latitude, longitude; null is the set
\* of columns that hold NULL instead of a text
Address(id, name, latitude, longitude) ==
    [id |-> id, name |-> name, latitude |-> latitude, longitude |-> longitude,
     null |-> {}]

Ids(table) == {table[i].id : i \in 1..Len(table)}

\* a key taken from the number of rows
NextId_count(table) == Len(table) + 1

\* Integer primary key on SQLite: one more than the largest rowid in the table
NextId(table) ==
    IF table = <<>> THEN 1 ELSE 1 + CHOOSE m \in Ids(table) : \A k \in Ids(table) : k <= m

\* a lookup that falls back on the first row
Find_first(table, address_id) ==
    IF address_id \in Ids(table)
    THEN CHOOSE i \in 1..Len(table) : table[i].id = address_id
    ELSE IF table = <<>> THEN 0 ELSE 1

\* db.query(Address).filter(Address.id == address_id).first() as a row index, 0 for None
Find(table, address_id) ==
    IF address_id \in Ids(table)
    THEN CHOOSE i \in 1..Len(table) : table[i].id = address_id
    ELSE 0

\* a delete that takes the last row
Remove_last(table, i) == SubSeq(table, 1, Len(table) - 1)

Remove(table, i) == SubSeq(table, 1, i - 1) \o SubSeq(table, i + 1, Len(table))

\* --------------------------------------------- get_addresses_within_radius

\* nearby_with_dist.sort(key=lambda x: x[1]): list.sort is stable, so an item
\* goes behind every item already placed whose distance is not greater
\* an insertion that goes in front of items of equal distance
RECURSIVE InsertByDist_unstable(_, _)
InsertByDist_unstable(sorted, item) ==
    IF sorted # <<>> /\ Leq(item.dist, sorted[Len(sorted)].dist)
    THEN Append(InsertByDist_unstable(SubSeq(sorted, 1, Len(sorted) - 1), item),
                sorted[Len(sorted)])
    ELSE Append(sorted, item)

RECURSIVE InsertByDist(_, _)
InsertByDist(sorted, item) ==
    IF sorted # <<>> /\ Lt(item.dist, sorted[Len(sorted)].dist)
    THEN Append(InsertByDist(SubSeq(sorted, 1, Len(sorted) - 1), item), sorted[Len(sorted)])
    ELSE Append(sorted, item)

RECURSIVE SortByDist(_)
SortByDist(items) ==
    IF items = <<>>
    THEN <<>>
    ELSE InsertByDist(SortByDist(SubSeq(items, 1, Len(items) - 1)), items[Len(items)])

\* haversine(latitude, longitude, addr.latitude, addr.longitude)
DistanceOf(latitude, longitude, addr) ==
    haversine(Str(latitude), Str(longitude), Str(addr.latitude), Str(addr.longitude))

\* app/crud: the test of one candidate's distance
InRadius(dist, distance_km) == Leq(Fin(0), dist) /\ Leq(dist, distance_km)

\* a loop body that gives up what it has kept when a candidate raises
Candidate_abort(nearby_with_dist, addr, dist, distance_km) ==
    CASE ~dist.ok -> <<>>
      [] InRadius(dist.val, distance_km) ->
            Append(nearby_with_dist, [addr |-> addr, dist |-> dist.val])
      [] OTHER -> nearby_with_dist

\* app/crud lines 168-179: the body of the for loop; a candidate whose
\* haversine raises is skipped
Candidate(nearby_with_dist, addr, dist, distance_km) ==
    IF dist.ok /\ InRadius(dist.val, distance_km)
    THEN Append(nearby_with_dist, [addr |-> addr, dist |-> dist.val])
    ELSE nearby_with_dist

\* app/crud: the for loop
RECURSIVE NearbyWithDist(_, _, _, _)
NearbyWithDist(addresses, latitude, longitude, distance_km) ==
    IF addresses = <<>>
    THEN <<>>
    ELSE Candidate(NearbyWithDist(SubSeq(addresses, 1, Len(addresses) - 1),
                                  latitude, longitude, distance_km),
                   addresses[Len(addresses)],
                   DistanceOf(latitude, longitude, addresses[Len(addresses)]),
                   distance_km)

\* the kept rows handed back farthest first
Items_reversed(pairs) == [i \in 1..Len(pairs) |-> pairs[Len(pairs) + 1 - i].addr]

Items(pairs) == [i \in 1..Len(pairs) |-> pairs[i].addr]

\* the value a handler returns or the exception it raises
Return(rows) == [ok |-> TRUE, rows |-> rows, exc |-> "", msg |-> <<>>]

Throw(kind, text) == [ok |-> FALSE, rows |-> <<>>, exc |-> kind, msg |-> text]

\* a query that treats an empty table as an error
get_addresses_within_radius_nonempty(table, db_fault, latitude, longitude, distance_km) ==
    CASE db_fault -> Throw("OperationalError", <<"database error">>)
      [] table = <<>> -> Throw("ValueError", <<"no addresses">>)
      [] OTHER -> Return(Items(SortByDist(NearbyWithDist(table, latitude, longitude,
                                                         distance_km))))

\* app/crud/address.py get_addresses_within_radius; db_fault: the query
\* db.query(Address).all() raises
get_addresses_within_radius(table, db_fault, latitude, longitude, distance_km) ==
    IF db_fault
    THEN Throw("OperationalError", <<"database error">>)
    ELSE Return(Items(SortByDist(NearbyWithDist(table, latitude, longitude, distance_km))))

\* haversine(lat, lon, addr.latitude, addr.longitude)
legacy_DistanceOf(lat, lon, addr) ==
    legacy_haversine(Str(lat), Str(lon), Str(addr.latitude), Str(addr.longitude))

\* top-level crud.py: the test of one candidate's distance
legacy_InRadius(dist, distance_km) == Lt(Fin(0), dist) /\ Leq(dist, distance_km)

\* top-level crud.py lines 34-39: the body of the for loop; the first
\* haversine that raises ends the loop
legacy_Candidate(before, addr, dist, distance_km) ==
    CASE ~before.ok -> before
      [] ~dist.ok -> [ok |-> FALSE, pairs |-> <<>>, exc |-> dist.exc, msg |-> dist.msg]
      [] legacy_InRadius(dist.val, distance_km) ->
            [before EXCEPT !.pairs = Append(@, [addr |-> addr, dist |-> dist.val])]
      [] OTHER -> before

\* top-level crud.py: the for loop
RECURSIVE legacy_NearbyWithDist(_, _, _, _)
legacy_NearbyWithDist(addresses, lat, lon, distance_km) ==
    IF addresses = <<>>
    THEN [ok |-> TRUE, pairs |-> <<>>, exc |-> "", msg |-> <<>>]
    ELSE legacy_Candidate(legacy_NearbyWithDist(SubSeq(addresses, 1, Len(addresses) - 1),
                                                lat, lon, distance_km),
                          addresses[Len(addresses)],
                          legacy_DistanceOf(lat, lon, addresses[Len(addresses)]),
                          distance_km)

\* top-level crud.py get_addresses_within_radius
legacy_sorted(loop) ==
    IF loop.ok THEN Return(Items(SortByDist(loop.pairs))) ELSE Throw(loop.exc, loop.msg)

legacy_get_addresses_within_radius(table, db_fault, lat, lon, distance_km) ==
    IF db_fault
    THEN Throw("OperationalError", <<"database error">>)
    ELSE legacy_sorted(legacy_NearbyWithDist(table, lat, lon, distance_km))

\* ------------------------------------------------------- service and router

\* a service that lets a zero radius through
find_nearby_addresses_strict(table, db_fault, latitude, longitude, distance_km) ==
    IF Lt(distance_km, Fin(0))
    THEN [result |-> Throw("ValueError", <<"distance_km must be greater than 0">>),
          reads |-> 0, calls |-> 0]
    ELSE [result |-> get_addresses_within_radius(table, db_fault, latitude, longitude,
                                                 distance_km),
          reads |-> 1, calls |-> IF db_fault THEN 0 ELSE Len(table)]

\* AddressService.find_nearby_addresses: the result, the number of table
\* reads and the number of haversine calls made
find_nearby_addresses(table, db_fault, latitude, longitude, distance_km) ==
    IF Leq(distance_km, Fin(0))
    THEN [result |-> Throw("ValueError", <<"distance_km must be greater than 0">>),
          reads |-> 0, calls |-> 0]
    ELSE [result |-> get_addresses_within_radius(table, db_fault, latitude, longitude,
                                                 distance_km),
          reads |-> 1, calls |-> IF db_fault THEN 0 ELSE Len(table)]

Response(status, body, detail, escaped) ==
    [status |-> status, body |-> body, detail |-> detail, escaped |-> escaped]

\* a router that lets an exception other than ValueError through
nearby_response_uncaught(result) ==
    CASE result.ok -> Response(200, result.rows, <<>>, FALSE)
      [] result.exc = "ValueError" -> Response(400, <<>>, result.msg, FALSE)
      [] OTHER -> Response(500, <<>>, <<"Internal Server Error">>, TRUE)

\* routers/address.py find_nearby_addresses: ValueError is a 400, any other
\* exception a 500
nearby_response(result) ==
    CASE result.ok -> Response(200, result.rows, <<>>, FALSE)
      [] result.exc = "ValueError" -> Response(400, <<>>, result.msg, FALSE)
      [] OTHER -> Response(500, <<>>, <<"Failed to search nearby addresses">>, FALSE)

\* top-level main.py nearby_addresses: nothing is caught, an exception leaves
\* the endpoint and the server answers 500
legacy_nearby_response(result) ==
    IF result.ok
    THEN Response(200, result.rows, <<>>, FALSE)
    ELSE Response(500, <<>>, <<"Internal Server Error">>, TRUE)

\* distance_km, in metres: negative, zero, 1 km, and exactly the distance of
\* one degree of latitude
OneDegree == haversine(Str(T0), Str(T0), Str(T1N), Str(T0)).val

Radii == {Fin(-1000), Fin(0), Fin(1000), OneDegree}

\* the fields a PUT body sets (model_dump(exclude_unset=True))
FieldSets == SUBSET {"name", "latitude", "longitude"}

NoRequest ==
    [op |-> "none", variant |-> "", id |-> 0, db_fault |-> FALSE, fields |-> {},
     nulls |-> {},
     name |-> "", latitude |-> <<>>, longitude |-> <<>>, distance_km |-> Fin(0)]

\* ------------------------------------------------------------------ state

VARIABLES
    db,         \* table "addresses", in rowid order
    request,    \* the request being answered
    response,   \* the answer to it
    effects,    \* what answering it did: table reads, haversine calls
    coord,      \* the argument of a direct call of parse_coordinate
    parsed,     \* which parse_coordinate was called and what came of it
    points,     \* the arguments lat1, lon1, lat2, lon2 of a direct call of haversine
    measured,   \* which haversine was called and what came of it
    query       \* a proximity query answered step by step by a second worker

vars == <<db, request, response, effects, coord, parsed, points, measured, query>>

server == <<db, request, response, effects>>

caller == <<coord, parsed, points, measured, query>>

\* no proximity query is under way; the fields are the locals of
\* get_addresses_within_radius, reads counts its table reads and evaluated
\* lists the ids of the candidates haversine was called for
NoQuery ==
    [pc |-> "idle", latitude |-> <<>>, longitude |-> <<>>, distance_km |-> Fin(0),
     addresses |-> <<>>, next |-> 1, nearby_with_dist |-> <<>>, result |-> <<>>,
     reads |-> 0, evaluated |-> <<>>]

NotParsed == [by |-> "none", out |-> Ok(None)]

NoPoints == <<Str(<<>>), Str(<<>>), Str(<<>>), Str(<<>>)>>

NoEffects == [reads |-> 0, calls |-> 0]

NoResponse == Response(0, <<>>, <<>>, FALSE)

Init ==
    /\ db = <<>>
    /\ request = NoRequest
    /\ response = NoResponse
    /\ effects = NoEffects
    /\ coord = Str(<<>>)
    /\ parsed = NotParsed
    /\ points = NoPoints
    /\ measured = NotParsed
    /\ query = NoQuery

\* the worker is free to take a request
Idle == request.op = "none"

\* the response is sent and the worker is free again
SendResponse ==
    /\ ~Idle
    /\ request' = NoRequest
    /\ response' = NoResponse
    /\ effects' = NoEffects
    /\ UNCHANGED <<db, caller>>

\* HTTPException(404, detail=f"Address with ID {address_id} not found")
NotFound(address_id) ==
    Response(404, <<>>, <<"Address with ID ", ToString(address_id), " not found">>, FALSE)

\* the 422 answer FastAPI gives to a body the schema rejects
Unprocessable == Response(422, <<>>, <<"validation error">>, FALSE)

\* schemas AddressCreate: name, latitude and longitude are required strings
\* (null is not a string) and name has min_length=1
valid_create(nulls, name) == nulls = {} /\ name # ""

\* schemas AddressUpdate: every field is Optional, null is accepted, and a
\* name that is a string has min_length=1
valid_update(fields, nulls, name) == "name" \in fields \ nulls => name # ""

\* a table whose columns accept NULL
commit_nullable(table, i, row) == [ok |-> TRUE, table |-> [table EXCEPT ![i] = row]]

\* db.commit() of one changed row: the columns are nullable=False, the flush
\* of a row with a NULL raises IntegrityError and the handler rolls back
commit(table, i, row) ==
    IF row.null = {}
    THEN [ok |-> TRUE, table |-> [table EXCEPT ![i] = row]]
    ELSE [ok |-> FALSE, table |-> table]

\* POST /addresses: crud.create_address; nulls are the fields of the body
\* that are null
CreateAddress(nulls, name, latitude, longitude) ==
    LET db_address == Address(NextId(db), name, latitude, longitude)
    IN  /\ Idle
        /\ request' = [NoRequest EXCEPT !.op = "create", !.nulls = nulls,
                                        !.name = name,
                                        !.latitude = latitude, !.longitude = longitude]
        /\ effects' = NoEffects
        /\ UNCHANGED caller
        /\ IF valid_create(nulls, name)
           THEN /\ Len(db) < MaxRecords
                /\ NextId(db) <= MaxId
                /\ db' = Append(db, db_address)
                /\ response' = Response(201, <<db_address>>, <<>>, FALSE)
           ELSE /\ response' = Unprocessable
                /\ UNCHANGED db

\* GET /addresses/{address_id}: crud.get_address
GetAddress(address_id) ==
    LET i == Find(db, address_id)
    IN  /\ Idle
        /\ request' = [NoRequest EXCEPT !.op = "get", !.id = address_id]
        /\ response' = IF i = 0
                       THEN NotFound(address_id)
                       ELSE Response(200, <<db[i]>>, <<>>, FALSE)
        /\ effects' = [reads |-> 1, calls |-> 0]
        /\ UNCHANGED <<db, caller>>

\* every field overwritten, supplied or not
Updated_all(row, fields, name, latitude, longitude) ==
    [id |-> row.id, name |-> name, latitude |-> latitude, longitude |-> longitude,
     null |-> row.null]

\* the row after setattr(db_address, key, value) for every key of update_data
Updated(row, fields, name, latitude, longitude) ==
    [id |-> row.id,
     name |-> IF "name" \in fields THEN name ELSE row.name,
     latitude |-> IF "latitude" \in fields THEN latitude ELSE row.latitude,
     longitude |-> IF "longitude" \in fields THEN longitude ELSE row.longitude,
     null |-> row.null]

\* the router's answer to what the commit of the changed row did
update_response(done, row) ==
    IF done.ok
    THEN Response(200, <<row>>, <<>>, FALSE)
    ELSE Response(500, <<>>, <<"Failed to update address">>, FALSE)

\* setattr(db_address, key, None) for the keys of update_data that are null
WithNulls(row, nulls) == [row EXCEPT !.null = @ \cup nulls]

\* PUT /addresses/{address_id}: crud.update_address; fields are the keys the
\* body sets, nulls those of them it sets to null
UpdateAddress(address_id, fields, nulls, name, latitude, longitude) ==
    LET i == Find(db, address_id)
        row == WithNulls(Updated(db[i], fields \ nulls, name, latitude, longitude),
                         fields \cap nulls)
    IN  /\ Idle
        /\ request' = [NoRequest EXCEPT !.op = "update", !.id = address_id,
                                        !.fields = fields, !.nulls = fields \cap nulls,
                                        !.name = IF "name" \in fields THEN name ELSE "",
                                        !.latitude = IF "latitude" \in fields
                                                     THEN latitude ELSE <<>>,
                                        !.longitude = IF "longitude" \in fields
                                                      THEN longitude ELSE <<>>]
        /\ UNCHANGED caller
        /\ CASE ~valid_update(fields, nulls, name) ->
                    /\ response' = Unprocessable
                    /\ effects' = NoEffects
                    /\ UNCHANGED db
             [] valid_update(fields, nulls, name) /\ i = 0 ->
                    /\ response' = NotFound(address_id)
                    /\ effects' = [reads |-> 1, calls |-> 0]
                    /\ UNCHANGED db
             [] OTHER ->
                    /\ db' = commit(db, i, row).table
                    /\ response' = update_response(commit(db, i, row), row)
                    /\ effects' = [reads |-> 1, calls |-> 0]

\* DELETE /addresses/{address_id}: crud.delete_address
DeleteAddress(address_id) ==
    LET i == Find(db, address_id)
    IN  /\ Idle
        /\ request' = [NoRequest EXCEPT !.op = "delete", !.id = address_id]
        /\ effects' = [reads |-> 1, calls |-> 0]
        /\ UNCHANGED caller
        /\ IF i = 0
           THEN /\ response' = NotFound(address_id)
                /\ UNCHANGED db
           ELSE /\ db' = Remove(db, i)
                /\ response' = Response(200, <<>>, <<"Address deleted successfully">>, FALSE)

\* the router turns what the service did into the response
Answer(out) ==
    /\ response' = nearby_response(out.result)
    /\ effects' = [reads |-> out.reads, calls |-> out.calls]

\* a query that stores what it parsed: each stored coordinate text that
\* matches the pattern is replaced by its number part
NumberPart(text) ==
    IF re_match(Strip(text)).matched THEN re_match(Strip(text)).group1 ELSE text

FindNearby_normalizing(db_fault, latitude, longitude, distance_km) ==
    /\ Idle
    /\ request' = [NoRequest EXCEPT !.op = "nearby", !.variant = "app",
                                    !.db_fault = db_fault, !.latitude = latitude,
                                    !.longitude = longitude,
                                    !.distance_km = distance_km]
    /\ Answer(find_nearby_addresses(db, db_fault, latitude, longitude, distance_km))
    /\ db' = [k \in 1..Len(db) |->
                [db[k] EXCEPT !.latitude = NumberPart(@),
                              !.longitude = NumberPart(@)]]
    /\ UNCHANGED caller

\* GET /addresses/nearby (app): router, service, crud
FindNearby(db_fault, latitude, longitude, distance_km) ==
    /\ Idle
    /\ request' = [NoRequest EXCEPT !.op = "nearby", !.variant = "app",
                                    !.db_fault = db_fault, !.latitude = latitude,
                                    !.longitude = longitude,
                                    !.distance_km = distance_km]
    /\ Answer(find_nearby_addresses(db, db_fault, latitude, longitude, distance_km))
    /\ UNCHANGED <<db, caller>>

\* GET /addresses/nearby (top-level main.py): endpoint, crud; there is no
\* service layer here and effects.calls is not counted for this variant
LegacyNearby(db_fault, latitude, longitude, distance_km) ==
    /\ Idle
    /\ request' = [NoRequest EXCEPT !.op = "nearby", !.variant = "legacy",
                                    !.db_fault = db_fault, !.latitude = latitude,
                                    !.longitude = longitude,
                                    !.distance_km = distance_km]
    /\ response' = legacy_nearby_response(
            legacy_get_addresses_within_radius(db, db_fault, latitude, longitude,
                                               distance_km))
    /\ effects' = [reads |-> 1, calls |-> 0]
    /\ UNCHANGED <<db, caller>>

Next ==
    \/ \E n \in Names, la \in LatTexts, lo \in LonTexts : CreateAddress({}, n, la, lo)
    \/ \E id \in 1..MaxId : GetAddress(id)
    \/ \E id \in 1..MaxId, f \in FieldSets :
          \E n \in IF "name" \in f THEN Names ELSE {""},
             la \in IF "latitude" \in f THEN LatTexts ELSE {<<>>},
             lo \in IF "longitude" \in f THEN LonTexts ELSE {<<>>} :
             UpdateAddress(id, f, {}, n, la, lo)
    \/ \E id \in 1..MaxId : DeleteAddress(id)
    \/ \E f \in BOOLEAN, la \in CenterLats, lo \in CenterLons, r \in Radii :
          FindNearby(f, la, lo, r)
    \/ \E f \in BOOLEAN, la \in CenterLats, lo \in CenterLons, r \in Radii :
          LegacyNearby(f, la, lo, r)
    \/ SendResponse

Spec == Init /\ [][Next]_vars

\* ------------------------------------------------- the proximity query, checked

\* a text that parses and lies in the latitude / longitude range
GoodLat(t) == parse_coordinate(Str(t)).ok /\ LatOk(parse_coordinate(Str(t)).val)

GoodLon(t) == parse_coordinate(Str(t)).ok /\ LonOk(parse_coordinate(Str(t)).val)

GoodRow(addr) == GoodLat(addr.latitude) /\ GoodLon(addr.longitude)

\* the request answered is a proximity query of the given variant whose table
\* read succeeds
NearbyAnswered(variant) ==
    request.op = "nearby" /\ request.variant = variant /\ ~request.db_fault

GoodCenter == GoodLat(request.latitude) /\ GoodLon(request.longitude)

PositiveRadius == Lt(Fin(0), request.distance_km)

\* the distance of a stored row from the center of the request
FromCenter(addr) == DistanceOf(request.latitude, request.longitude, addr).val

InBody(addr) == \E i \in 1..Len(response.body) : response.body[i] = addr

\* C1: a proximity query whose center latitude or longitude is unparseable
\* or out of range is answered with a 400-class response, whatever the table
\* holds, and never with a result list
C1_BadCenterSurfaced ==
    NearbyAnswered("app") /\ PositiveRadius /\ ~GoodCenter =>
        response.status \in 400..499

\* C2: with a valid center and a positive radius, a stored row whose
\* coordinates do not parse or are out of range is skipped, and the answer is
\* the one the query gives over the table without that row
C2_BadCandidateSkipped ==
    NearbyAnswered("app") /\ PositiveRadius /\ GoodCenter =>
        \A k \in 1..Len(db) :
            ~GoodRow(db[k]) =>
                /\ response.status = 200
                /\ ~InBody(db[k])
                /\ response.body =
                      get_addresses_within_radius(Remove(db, k), FALSE, request.latitude,
                                                  request.longitude,
                                                  request.distance_km).rows

C2_Witness ==
    /\ NearbyAnswered("app") /\ PositiveRadius /\ GoodCenter
    /\ Len(db) = 2 /\ ~GoodRow(db[1]) /\ GoodRow(db[2])
    /\ response.status = 200
    /\ response.body = <<db[2]>>

\* C3: in the app query and in the top-level one alike, a valid stored row
\* is in the answer exactly when its distance d from the center satisfies
\* 0 <= d <= distance_km, both bounds included
C3_InclusiveBounds ==
    /\ request.op = "nearby" /\ ~request.db_fault
    /\ PositiveRadius /\ GoodCenter
    /\ \A k \in 1..Len(db) : GoodRow(db[k])
    => /\ response.status = 200
       /\ \A k \in 1..Len(db) :
             InBody(db[k]) <=>
                 (Leq(Fin(0), FromCenter(db[k]))
                    /\ Leq(FromCenter(db[k]), request.distance_km))

\* C4: the answer of a proximity query lists stored rows, by non-decreasing
\* distance from the center, rows of equal distance in the order of the table
C4_SortedStable ==
    NearbyAnswered("app") /\ response.status = 200 =>
        /\ \A i \in 1..Len(response.body) : \E k \in 1..Len(db) : response.body[i] = db[k]
        /\ \A i, j \in 1..Len(response.body) :
              i < j =>
                /\ Leq(FromCenter(response.body[i]), FromCenter(response.body[j]))
                /\ FromCenter(response.body[i]) = FromCenter(response.body[j]) =>
                      Find(db, response.body[i].id) < Find(db, response.body[j].id)

C4_Witness ==
    /\ NearbyAnswered("app") /\ response.status = 200
    /\ Len(db) = 2
    /\ Lt(FromCenter(db[2]), FromCenter(db[1]))
    /\ response.body = <<db[2], db[1]>>

\* C5: a proximity query with distance_km <= 0 is answered 400 before the
\* table is read and before any distance is computed, for every center and
\* every table
C5_RadiusRejectedFirst ==
    request.op = "nearby" /\ request.variant = "app"
        /\ Leq(request.distance_km, Fin(0)) =>
            /\ response.status = 400
            /\ response.detail = <<"distance_km must be greater than 0">>
            /\ effects.reads = 0
            /\ effects.calls = 0

C5_Witness ==
    /\ request.op = "nearby" /\ request.variant = "app"
    /\ request.distance_km = Fin(0)
    /\ request.db_fault /\ ~GoodCenter /\ Len(db) = 2
    /\ response.status = 400
    /\ effects = [reads |-> 0, calls |-> 0]

\* C6: a proximity query with a valid center and a positive radius over an
\* empty table is answered 200 with the empty list
C6_EmptyStore ==
    NearbyAnswered("app") /\ PositiveRadius /\ GoodCenter /\ db = <<>> =>
        response.status = 200 /\ response.body = <<>>

C6_Witness ==
    /\ NearbyAnswered("app") /\ PositiveRadius /\ GoodCenter /\ db = <<>>
    /\ response = Response(200, <<>>, <<>>, FALSE)

\* ---------------------------------------------- parse_coordinate called directly

\* the characters texts are made of: digits, signs, the point, the blank, the
\* degree sign, direction letters in both cases, and letters of inf / nan
Alphabet ==
    {"1", "2", "-", "+", ".", " ", "deg", "N", "S", "E", "W", "n", "s", "e", "w",
     "x", "i", "f", "a"}

\* every text of at most MaxLen characters
ShortTexts == UNION {[1..n -> Alphabet] : n \in 0..MaxLen}

\* a decimal number, optional degree sign and optional direction letter, by
\* its parts: sign text, whole degrees and tenths (-1 when absent), the text
\* between number and letter, the letter
DecimalParts ==
    {p \in [sign : {<<>>, <<"-">>, <<"+">>},
            whole : {-1, 1, 22},
            tenth : {-1, 7},
            mid : {<<>>, <<" ">>, <<"deg">>, <<"deg", " ">>, <<" ", "deg", " ">>},
            dir : {<<>>} \cup {<<c>> : c \in DirLetters}] :
        p.whole # -1 \/ p.tenth # -1}

Digit(n) == CHOOSE c \in Digits : DigitVal(c) = n

\* str(n) of a natural number
RECURSIVE Decimal(_)
Decimal(n) == IF n < 10 THEN <<Digit(n)>> ELSE Decimal(n \div 10) \o <<Digit(n % 10)>>

\* the text the parts spell
DecimalText(p) ==
    p.sign \o (IF p.whole = -1 THEN <<>> ELSE Decimal(p.whole))
           \o (IF p.tenth = -1 THEN <<>> ELSE <<".", Digit(p.tenth)>>)
           \o p.mid \o p.dir

\* the number the parts spell, direction letter aside, in tenths of a degree
DecimalValue(p) ==
    (IF p.sign = <<"-">> THEN -1 ELSE 1)
        * ((IF p.whole = -1 THEN 0 ELSE p.whole * CoordScale)
            + (IF p.tenth = -1 THEN 0 ELSE p.tenth))

DecimalTexts == {DecimalText(p) : p \in DecimalParts}

\* sign, number and letter of a decimal text
PartsOf == [t \in DecimalTexts |-> CHOOSE p \in DecimalParts : DecimalText(p) = t]

\* texts float() reads as special values
SpecialTexts ==
    {<<"i", "n", "f">>, <<"-", "i", "n", "f">>, <<"n", "a", "n">>,
     <<"I", "n", "f", "i", "n", "i", "t", "y">>}

Floats ==
    {Fin(-1810), Fin(-900), Fin(-227), Fin(0), Fin(227), Fin(900), Fin(905),
     Fin(1800), Fin(3600), Inf(1), Inf(-1), NaN}

Ints == {-181, -91, -1, 0, 22, 90, 91, 181}

\* the arguments parse_coordinate is called with
Coords ==
    {Str(t) : t \in ShortTexts \cup DecimalTexts \cup SpecialTexts}
        \cup {Num(x) : x \in Floats} \cup {IntNum(n) : n \in Ints}

ParseInit ==
    /\ db = <<>>
    /\ request = NoRequest
    /\ response = NoResponse
    /\ effects = NoEffects
    /\ coord \in Coords
    /\ parsed = NotParsed
    /\ points = NoPoints
    /\ measured = NotParsed
    /\ query = NoQuery

\* app.utils.parse_coordinate(coord)
ParseCoordinate ==
    /\ parsed = NotParsed
    /\ parsed' = [by |-> "app", out |-> parse_coordinate(coord)]
    /\ UNCHANGED <<coord, points, measured, query, server>>

\* utils.parse_coordinate(coord)
LegacyParseCoordinate ==
    /\ parsed = NotParsed
    /\ parsed' = [by |-> "legacy", out |-> legacy_parse_coordinate(coord)]
    /\ UNCHANGED <<coord, points, measured, query, server>>

ParseNext == ParseCoordinate \/ LegacyParseCoordinate

ParseSpec == ParseInit /\ [][ParseNext]_vars

\* ------------------------------------------------- parse_coordinate, checked

ParsedText == parsed.by # "none" /\ coord.tag = "str"

\* [-+]?\d*\.?\d+ : an optional sign, then digits with at most one point,
\* ending in a digit
IsDecimalLiteral(g) ==
    LET b == IF g # <<>> /\ g[1] \in Signs THEN Tail(g) ELSE g
    IN  /\ b # <<>>
        /\ b[Len(b)] \in Digits
        /\ \A i \in 1..Len(b) : b[i] \in Digits \cup {"."}
        /\ Cardinality({i \in 1..Len(b) : b[i] = "."}) <= 1

\* the pattern is anchored at the start only and everything after group 1 is
\* optional: a text matches when one of its prefixes is a decimal literal
MatchesPattern(t) == \E k \in 1..Len(t) : IsDecimalLiteral(SubSeq(t, 1, k))

\* of the texts the pattern does not match, float() reads the infinities and
\* nan, signed or not, in any case
ReadsAsNumber(t) ==
    LowerStr(IF t # <<>> /\ t[1] \in Signs THEN Tail(t) ELSE t)
        \in {<<"i", "n", "f">>, <<"i", "n", "f", "i", "n", "i", "t", "y">>, <<"n", "a", "n">>}

Contains(text, part) ==
    \E i \in 0..(Len(text) - Len(part)) : SubSeq(text, i + 1, i + Len(part)) = part

\* C7: a decimal number with optional degree sign and optional direction
\* letter parses to the number negated when the letter is S or W, in either
\* case, and to the number itself when the letter is N, E or absent
C7_DirectionSign ==
    ParsedText /\ coord.str \in DecimalTexts =>
        parsed.out =
            Ok(Fin(IF PartsOf[coord.str].dir \in {<<"S">>, <<"W">>, <<"s">>, <<"w">>}
                   THEN -DecimalValue(PartsOf[coord.str])
                   ELSE DecimalValue(PartsOf[coord.str])))

C7_Witness ==
    /\ parsed.by = "app"
    /\ coord = Str(<<"2", "2", ".", "7", "deg", " ", "s">>)
    /\ parsed.out = Ok(Fin(-227))

\* C8: a numeric argument, int or float, comes back as the same number, in
\* range or not
C8_NumericUnchanged ==
    parsed.by # "none" =>
        /\ coord.tag = "float" => parsed.out = Ok(coord.num)
        /\ coord.tag = "int" => parsed.out = Ok(Fin(coord.int * CoordScale))

C8_Witness ==
    /\ parsed.by = "app"
    /\ coord = Num(Fin(3600))
    /\ parsed.out = Ok(Fin(3600))

\* C9: a text the pattern does not match and float() does not read raises
\* ValueError with the original input in its message
C9_InvalidFormat ==
    parsed.by = "app" /\ coord.tag = "str"
        /\ ~MatchesPattern(Strip(coord.str)) /\ ~ReadsAsNumber(Strip(coord.str)) =>
            /\ ~parsed.out.ok
            /\ parsed.out.val = None
            /\ parsed.out.exc = "ValueError"
            /\ Contains(parsed.out.msg, coord.str)

C9_Witness ==
    /\ parsed.by = "app"
    /\ coord = Str(<<" ", "x", " ">>)
    /\ parsed.out = Raise("ValueError", <<"Invalid coordinate format: ", " ", "x", " ">>)

\* C10: a text with a minus sign and the letter S or W parses to the positive
\* magnitude; with a minus sign and N or E it stays negative
C10_SignAndLetter ==
    ParsedText /\ coord.str \in DecimalTexts
        /\ PartsOf[coord.str].sign = <<"-">> /\ PartsOf[coord.str].dir # <<>> =>
            /\ parsed.out.ok
            /\ IF PartsOf[coord.str].dir \in {<<"S">>, <<"W">>, <<"s">>, <<"w">>}
               THEN Lt(Fin(0), parsed.out.val)
                      /\ parsed.out.val = Fin(-DecimalValue(PartsOf[coord.str]))
               ELSE Lt(parsed.out.val, Fin(0))
                      /\ parsed.out.val = Fin(DecimalValue(PartsOf[coord.str]))

C10_Witness ==
    /\ parsed.by = "app"
    /\ coord = Str(<<"-", "2", "2", ".", "7", " ", "S">>)
    /\ parsed.out = Ok(Fin(227))

\* C11: parse_coordinate either raises or returns one finite number, never an
\* infinity and never nan, for numeric and for text arguments alike
C11_FiniteOrFails ==
    parsed.by = "app" /\ parsed.out.ok => IsFinite(parsed.out.val)

\* ------------------------------------------------------ haversine called directly

\* latitudes and longitudes a caller passes: floats, ints and texts, at the
\* ends of the range, inside it, beyond it, unparseable and not finite
HavLats ==
    {Num(Fin(-900)), Num(Fin(900)), Num(Fin(901)), Num(Fin(-10)), Num(Fin(227)),
     IntNum(90), IntNum(-91), Str(T0), Str(T1S), Str(<<"9", "0", " ", "S">>),
     Str(TX), Num(NaN)}

HavLons ==
    {Num(Fin(-1800)), Num(Fin(1800)), Num(Fin(1801)), Num(Fin(758)), IntNum(180),
     Str(T0), Str(<<"1", "8", "0", "deg", "W">>), Str(TX)}

HaversineInit ==
    /\ db = <<>>
    /\ request = NoRequest
    /\ response = NoResponse
    /\ effects = NoEffects
    /\ coord = Str(<<>>)
    /\ parsed = NotParsed
    /\ points \in HavLats \X HavLons \X HavLats \X HavLons
    /\ measured = NotParsed
    /\ query = NoQuery

\* app.utils.haversine(lat1, lon1, lat2, lon2)
Haversine ==
    /\ measured = NotParsed
    /\ measured' = [by |-> "app",
                    out |-> haversine(points[1], points[2], points[3], points[4])]
    /\ UNCHANGED <<points, coord, parsed, query, server>>

\* utils.haversine(lat1, lon1, lat2, lon2)
LegacyHaversine ==
    /\ measured = NotParsed
    /\ measured' = [by |-> "legacy",
                    out |-> legacy_haversine(points[1], points[2], points[3], points[4])]
    /\ UNCHANGED <<points, coord, parsed, query, server>>

HaversineNext == Haversine \/ LegacyHaversine

HaversineSpec == HaversineInit /\ [][HaversineNext]_vars

\* ------------------------------------------------------------ haversine, checked

\* the four arguments as parse_coordinate leaves them
Normalized == [i \in 1..4 |-> parse_coordinate(points[i])]

AllNormalize == \A i \in 1..4 : Normalized[i].ok

\* a value within [-limit, limit] degrees, end points included
Within(x, limit) == Leq(Fin(-limit * CoordScale), x) /\ Leq(x, Fin(limit * CoordScale))

AllInRange ==
    /\ Within(Normalized[1].val, 90) /\ Within(Normalized[3].val, 90)
    /\ Within(Normalized[2].val, 180) /\ Within(Normalized[4].val, 180)

OutOfRangeError(out) ==
    /\ ~out.ok
    /\ out.exc = "ValueError"
    /\ out.msg \in {<<"Latitude must be between -90 and 90 degrees">>,
                    <<"Longitude must be between -180 and 180 degrees">>}

\* C12: haversine raises the out-of-range error exactly when all four
\* arguments normalize and a latitude is outside [-90, 90] or a longitude
\* outside [-180, 180]; with every value in range, end points included, it
\* returns a distance
C12_RangeError ==
    measured.by = "app" =>
        /\ OutOfRangeError(measured.out) <=> (AllNormalize /\ ~AllInRange)
        /\ AllNormalize /\ AllInRange => measured.out.ok /\ IsFinite(measured.out.val)

C12_Witness ==
    /\ measured.by = "app"
    /\ points = <<Num(Fin(-900)), Num(Fin(-1800)), IntNum(90), Str(<<"1", "8", "0", "deg", "W">>)>>
    /\ measured.out.ok

\* C13: the distance of a valid point from itself is exactly 0, whether the
\* point is written as numbers or as text with direction letters
C13_SamePointZero ==
    /\ measured.by # "none"
    /\ AllNormalize /\ AllInRange
    /\ Normalized[1] = Normalized[3] /\ Normalized[2] = Normalized[4]
    => measured.out = Ok(Fin(0))

C13_Witness ==
    /\ measured.by = "app"
    /\ points = <<Str(T1S), Str(<<"1", "8", "0", "deg", "W">>), Num(Fin(-10)), Num(Fin(-1800))>>
    /\ measured.out = Ok(Fin(0))

\* haversine with the two points exchanged
Exchanged == haversine(points[3], points[4], points[1], points[2])

\* C14: haversine(A, B) raises exactly when haversine(B, A) raises, and for
\* valid points the two distances are equal
C14_Symmetric ==
    measured.by = "app" =>
        /\ measured.out.ok <=> Exchanged.ok
        /\ measured.out.ok => measured.out.val = Exchanged.val

C14_Witness ==
    /\ measured.by = "app"
    /\ points = <<Num(Fin(227)), Num(Fin(758)), Str(T1S), Str(T0)>>
    /\ measured.out.ok
    /\ Lt(Fin(0), measured.out.val)
    /\ measured.out = Exchanged

\* ------------------------------------------------------- the handlers, checked

\* the step answers a request of the given kind
Answers(op) == request.op = "none" /\ request'.op = op

\* the row of the table with the given id, as a set (empty when there is none)
RowsWithId(table, id) == {k \in 1..Len(table) : table[k].id = id}

Fields == {"name", "latitude", "longitude"}

\* C15: an update of an existing id sets exactly the supplied fields to the
\* supplied values, keeps the other fields and the id, leaves the other rows
\* alone, and returns the updated row; with no field supplied the table is
\* unchanged
C15_UpdateFrame ==
    [][Answers("update") /\ request'.id \in Ids(db) =>
          /\ Len(db') = Len(db)
          /\ \A k \in 1..Len(db) :
                IF db[k].id = request'.id
                THEN /\ db'[k].id = db[k].id
                     /\ \A f \in Fields :
                           db'[k][f] = IF f \in request'.fields THEN request'[f] ELSE db[k][f]
                     /\ response' = Response(200, <<db'[k]>>, <<>>, FALSE)
                ELSE db'[k] = db[k]
          /\ request'.fields = {} => db' = db]_vars

C15_Witness ==
    /\ request.op = "update" /\ request.fields = {"latitude"}
    /\ response.status = 200
    /\ Len(db) = 2
    /\ db[2].id = request.id
    /\ db[2].latitude = request.latitude
    /\ db[2].longitude # <<>> /\ db[2].name # ""

\* C16: get, update and delete of an id that is not in the table answer 404
\* and leave the table as it was
C16_NotFound ==
    [][(Answers("get") \/ Answers("update") \/ Answers("delete"))
          /\ request'.id \notin Ids(db) =>
              response'.status = 404 /\ db' = db]_vars

C16_Witness ==
    /\ request.op = "update" /\ request.fields = Fields
    /\ request.id \notin Ids(db)
    /\ Len(db) = 2
    /\ response.status = 404

\* C17: a delete of an existing id removes that row and no other and returns
\* the confirmation; while an id is not in the table, get, update and delete
\* of it answer 404 and no proximity answer lists a row with it; an id enters
\* the table only by a create that is assigned it
C17_DeletedStaysGone ==
    [][/\ Answers("delete") /\ request'.id \in Ids(db) =>
             /\ response' = Response(200, <<>>, <<"Address deleted successfully">>, FALSE)
             /\ request'.id \notin Ids(db')
             /\ Len(db') = Len(db) - 1
             /\ \A k \in 1..Len(db) :
                   /\ db[k].id = request'.id => \A j \in k..Len(db') : db'[j] = db[j + 1]
                   /\ db[k].id = request'.id => \A j \in 1..(k - 1) : db'[j] = db[j]
       /\ \A id \in 1..MaxId :
             id \notin Ids(db) =>
                /\ request'.id = id /\ request'.op \in {"get", "update", "delete"} =>
                      response'.status = 404
                /\ request'.op = "nearby" =>
                      \A i \in 1..Len(response'.body) : response'.body[i].id # id
                /\ id \in Ids(db') =>
                      request'.op = "create" /\ response'.body[1].id = id]_vars

C17_Witness ==
    /\ request.op = "delete" /\ response.status = 200
    /\ request.id = 1
    /\ Len(db) = 1 /\ db[1].id = 2

\* C18: a create stores name, latitude and longitude as given, whether or not
\* the texts parse or are in range, under a new id, and a get of a stored id
\* returns the stored row
C18_StoredAsGiven ==
    [][/\ Answers("create") =>
             /\ Len(db') = Len(db) + 1
             /\ db'[Len(db')].name = request'.name
             /\ db'[Len(db')].latitude = request'.latitude
             /\ db'[Len(db')].longitude = request'.longitude
             /\ response' = Response(201, <<db'[Len(db')]>>, <<>>, FALSE)
       /\ Answers("get") /\ request'.id \in Ids(db) =>
             /\ response'.status = 200
             /\ \A k \in RowsWithId(db, request'.id) : response'.body = <<db[k]>>]_vars

C18_Witness ==
    /\ request.op = "get" /\ response.status = 200
    /\ response.body[1].latitude = TX
    /\ response.body[1].longitude = T181
    /\ ~GoodRow(response.body[1])

\* C19: no two rows of the table have the same id, a create is assigned an
\* id no row holds, and an update keeps every row's id
C19_UniqueIds ==
    [][/\ \A i, j \in 1..Len(db') : db'[i].id = db'[j].id => i = j
       /\ Answers("create") => db'[Len(db')].id \notin Ids(db)
       /\ Answers("update") =>
             Len(db') = Len(db) /\ \A k \in 1..Len(db) : db'[k].id = db[k].id]_vars

C19_Witness ==
    /\ request.op = "create"
    /\ Len(db) = 2
    /\ db[1].id = 2 /\ db[2].id = 3

C21_QueryNeverWrites ==
    [][Answers("nearby") =>
            /\ Len(db') = Len(db)
            /\ \A k \in 1..Len(db) :
                    /\ db'[k].id = db[k].id
                    /\ db'[k].name = db[k].name
                    /\ db'[k].latitude = db[k].latitude
                    /\ db'[k].longitude = db[k].longitude]_vars

\* a query over a store that holds a latitude text with a direction letter has
\* returned that record, with the text as it was stored
C21_Witness ==
    /\ request.op = "nearby"
    /\ request.variant = "app"
    /\ response.status = 200
    /\ \E k \in 1..Len(db) : db[k].latitude = T1S /\ InBody(db[k])

\* the first of the four arguments, in the order lat1, lon1, lat2, lon2, that
\* does not normalize (0 when all four do)
FirstUnparseable ==
    IF AllNormalize THEN 0
    ELSE CHOOSE i \in 1..4 : ~Normalized[i].ok /\ \A j \in 1..(i - 1) : Normalized[j].ok

\* some argument that normalizes is outside its range
SomeOutOfRange ==
    \E i \in 1..4 :
        /\ Normalized[i].ok
        /\ ~Within(Normalized[i].val, IF i \in {1, 3} THEN 90 ELSE 180)

\* C24: haversine normalizes all four arguments before any range check.  When
\* some argument is unparseable the call fails with the invalid-format error
\* of the first such argument, exactly as parse_coordinate raised it (same
\* kind, same message naming that input), also when another argument is out
\* of range; the out-of-range error is raised only when all four normalize
C24_FormatErrorFirst ==
    measured.by = "app" =>
        /\ ~AllNormalize =>
                /\ measured.out = Normalized[FirstUnparseable]
                /\ measured.out = Raise("ValueError",
                                        <<"Invalid coordinate format: ">>
                                            \o points[FirstUnparseable].str)
                /\ ~OutOfRangeError(measured.out)
        /\ OutOfRangeError(measured.out) => AllNormalize

\* the first latitude is out of range and the last longitude is unparseable:
\* the call has failed with the format error of the longitude
C24_Witness ==
    /\ measured.by = "app"
    /\ points[1] = Num(Fin(901))
    /\ points[4] = Str(TX)
    /\ Normalized[2].ok /\ Normalized[3].ok
    /\ SomeOutOfRange
    /\ measured.out = Raise("ValueError", <<"Invalid coordinate format: ">> \o TX)

\* what may follow the number in a one-token text, from position i on: blanks,
\* at most one degree sign, blanks, at most one direction letter, and nothing
\* else
TokenTail(t, i) ==
    LET j == SkipClass(t, i, Space)
        k == SkipClass(t, IF At(t, j) = "deg" THEN j + 1 ELSE j, Space)
    IN  (IF At(t, k) \in DirLetters THEN k + 1 ELSE k) > Len(t)

\* the whole text is one decimal number, optionally followed by a degree sign
\* and a direction letter
WholeToken(t) ==
    \E n \in 1..Len(t) : IsDecimalLiteral(SubSeq(t, 1, n)) /\ TokenTail(t, n + 1)

\* C23: parse_coordinate returns a value for a text only when the whole
\* trimmed text is one decimal number optionally followed by a degree sign and
\* one direction letter (the infinities and nan that float() reads are set
\* aside here); a text that starts with such a token and goes on after it
\* fails with the invalid-format error instead of being read from its start
C23_WholeTextOnly ==
    parsed.by = "app" /\ coord.tag = "str" /\ ~ReadsAsNumber(Strip(coord.str)) =>
        /\ parsed.out.ok => WholeToken(Strip(coord.str))
        /\ ~WholeToken(Strip(coord.str)) =>
                parsed.out = Raise("ValueError",
                                   <<"Invalid coordinate format: ">> \o coord.str)

\* the list the same query returns over the same table with another radius
WithRadius(distance_km) ==
    get_addresses_within_radius(db, FALSE, request.latitude, request.longitude,
                                distance_km).rows

IsPrefix(short, long) ==
    Len(short) <= Len(long) /\ SubSeq(long, 1, Len(short)) = short

\* the radii a query with a positive radius may be compared with
WiderRadii == {r \in Radii \cup {Inf(1)} : Leq(request.distance_km, r)}

\* C25: for a fixed table and a valid center the result is monotone in the
\* radius.  The list answered for a positive radius is a prefix of the list
\* the same query returns for every radius at least as large (same rows in
\* the same order), and when the radius is at least the distance of every
\* valid stored row the list holds all the valid rows
C25_MonotoneInRadius ==
    NearbyAnswered("app") /\ GoodCenter /\ PositiveRadius =>
        /\ response.status = 200
        /\ \A r \in WiderRadii : IsPrefix(response.body, WithRadius(r))
        /\ (\A k \in 1..Len(db) :
                GoodRow(db[k]) => Leq(FromCenter(db[k]), request.distance_km))
            => \A k \in 1..Len(db) : GoodRow(db[k]) => InBody(db[k])

\* the one-kilometre query has returned the near row only, and the
\* one-degree query over the same table returns the near row and then the
\* far one, which is stored first
C25_Witness ==
    /\ NearbyAnswered("app") /\ GoodCenter
    /\ request.distance_km = Fin(1000)
    /\ Len(db) = 2
    /\ response.body = <<db[2]>>
    /\ WithRadius(OneDegree) = <<db[2], db[1]>>

\* ------------------------------------------------ create and update requests

\* the values a body gives a field: a name or the empty string, a coordinate
\* text or the empty string; null is given through the set of null fields
WriteNames == {"a", ""}

WriteTexts == {T0, <<>>}

WriteNext ==
    \/ \E nulls \in FieldSets :
          \E n \in IF "name" \in nulls THEN {""} ELSE WriteNames,
             la \in IF "latitude" \in nulls THEN {<<>>} ELSE WriteTexts,
             lo \in IF "longitude" \in nulls THEN {<<>>} ELSE WriteTexts :
             CreateAddress(nulls, n, la, lo)
    \/ \E id \in 1..MaxId, f \in FieldSets :
          \E nulls \in SUBSET f :
             \E n \in IF "name" \in f \ nulls THEN WriteNames ELSE {""},
                la \in IF "latitude" \in f \ nulls THEN WriteTexts ELSE {<<>>},
                lo \in IF "longitude" \in f \ nulls THEN WriteTexts ELSE {<<>>} :
                UpdateAddress(id, f, nulls, n, la, lo)
    \/ SendResponse

WriteSpec == Init /\ [][WriteNext]_vars

\* the body of a create or update request would leave a row without a name
\* or with a null in a required column
WouldViolate(req) ==
    \/ req.nulls # {}
    \/ (req.op = "create" \/ "name" \in req.fields) /\ req.name = ""

\* C26: after any sequence of create and update requests, updates that set a
\* field to null or to the empty string included, every row of the table has
\* a non-empty name and no null in name, latitude or longitude; a request
\* that would break this is answered with an error status and leaves the
\* table as it was
C26_RequiredFieldsKept ==
    [][/\ \A k \in 1..Len(db') : db'[k].name # "" /\ db'[k].null = {}
       /\ (Answers("create") \/ Answers("update")) /\ WouldViolate(request') =>
                response'.status >= 400 /\ db' = db]_vars

\* an update that sets the name of a stored row to null has been answered
\* 500 and the row still has its name, next to a row whose latitude was set
\* to the empty string
C26_Witness ==
    /\ request.op = "update"
    /\ request.nulls = {"name"}
    /\ response.status = 500
    /\ Len(db) = 2
    /\ db[Find(db, request.id)].name = "a"
    /\ \E k \in 1..Len(db) : db[k].latitude = <<>>

\* ------------------------------------- a proximity query among other requests

\* a loop that looks each candidate up in the table again
Fetched_again(q, table, i) == IF i <= Len(table) THEN table[i] ELSE q.addresses[i]

\* the candidate the for loop of get_addresses_within_radius is at: an item of
\* the list it fetched
Fetched(q, table, i) == q.addresses[i]

\* the locals after one pass of the loop body for candidate addr
Evaluate(q, addr) ==
    [q EXCEPT !.nearby_with_dist =
                    Candidate(@, addr, DistanceOf(q.latitude, q.longitude, addr),
                              q.distance_km),
              !.evaluated = Append(@, addr.id),
              !.next = @ + 1]

\* the second worker takes GET /addresses/nearby with a positive radius (the
\* service has let it through) and enters get_addresses_within_radius
QueryStart(latitude, longitude, distance_km) ==
    /\ query.pc = "idle"
    /\ Lt(Fin(0), distance_km)
    /\ query' = [NoQuery EXCEPT !.pc = "read", !.latitude = latitude,
                                !.longitude = longitude, !.distance_km = distance_km]
    /\ UNCHANGED <<server, coord, parsed, points, measured>>

\* addresses = db.query(Address).all()
QueryRead ==
    /\ query.pc = "read"
    /\ query' = [query EXCEPT !.pc = "loop", !.addresses = db, !.reads = @ + 1]
    /\ UNCHANGED <<server, coord, parsed, points, measured>>

\* one pass of the for loop
QueryEvaluate ==
    /\ query.pc = "loop"
    /\ query.next <= Len(query.addresses)
    /\ query' = Evaluate(query, Fetched(query, db, query.next))
    /\ UNCHANGED <<server, coord, parsed, points, measured>>

\* the loop is over: sort by distance, drop the distances, return
QueryReturn ==
    /\ query.pc = "loop"
    /\ query.next > Len(query.addresses)
    /\ query' = [query EXCEPT !.pc = "done",
                              !.result = Items(SortByDist(query.nearby_with_dist))]
    /\ UNCHANGED <<server, coord, parsed, points, measured>>

\* the list is sent and the second worker is free again
QueryClose ==
    /\ query.pc = "done"
    /\ query' = NoQuery
    /\ UNCHANGED <<server, coord, parsed, points, measured>>

\* what the first worker's requests write while the query runs
ConcurrentTexts == {T0, T1N}

ConcurrentRadii == {Fin(1000), OneDegree}

ConcurrentNext ==
    \/ \E la \in ConcurrentTexts : CreateAddress({}, "a", la, T0)
    \/ \E id \in 1..MaxId, la \in ConcurrentTexts :
          UpdateAddress(id, {"latitude"}, {}, "", la, <<>>)
    \/ \E id \in 1..MaxId : DeleteAddress(id)
    \/ SendResponse
    \/ \E r \in ConcurrentRadii : QueryStart(T0, T0, r)
    \/ QueryRead
    \/ QueryEvaluate
    \/ QueryReturn
    \/ QueryClose

ConcurrentSpec == Init /\ [][ConcurrentNext]_vars

\* the list the query returns over a given table
OverTable(table) ==
    get_addresses_within_radius(table, FALSE, query.latitude, query.longitude,
                                query.distance_km).rows

\* C22: a proximity query that runs interleaved with create, update and
\* delete requests reads the table once and calls haversine once for each row
\* it fetched, in the order fetched; the list it returns is the within-radius
\* list of the table as it was at that read, whatever was written since
C22_SingleRead ==
    /\ query.pc \in {"loop", "done"} =>
            /\ query.reads = 1
            /\ query.evaluated =
                    [i \in 1..(query.next - 1) |-> query.addresses[i].id]
    /\ query.pc = "done" =>
            /\ Len(query.evaluated) = Len(query.addresses)
            /\ query.result = OverTable(query.addresses)

\* the query has returned both rows it fetched, the nearer first, while the
\* table has since lost one of them and has the other moved out of place: the
\* list over the table as it is now would be another one
C22_Witness ==
    /\ query.pc = "done"
    /\ Len(query.addresses) = 2
    /\ query.result = <<query.addresses[2], query.addresses[1]>>
    /\ db # query.addresses
    /\ OverTable(db) # query.result

====
